---- MODULE Spec2Model ----
(***************************************************************************)
(* Credit ledger and reservation accounting of the crawling engine.        *)
(*                                                                         *)
(* CreditService (src/src/services/crawler.js, second half of the file)    *)
(* keeps, in a shared Redis store, one balance per user, a log of          *)
(* transactions, a history list per user and one reservation hash per      *)
(* operationId.  Its callers are the credit routes, the two recheck routes *)
(* (src/api/routes/recheck.js) and CrawlerService.crawl                     *)
(* (src/unnamed/part_008).                                                  *)
(*                                                                         *)
(* Granularity: one action per round trip to the store.  A call reaches    *)
(* the store in the step that issues its first command, and the            *)
(* synchronous code that follows an await runs in the step of that round   *)
(* trip.  A pipeline is applied in one step (its commands travel in one    *)
(* request and run in order).                                              *)
(*                                                                         *)
(* RateLimiter (src/unnamed/part_009) keeps, in the same store, one sorted *)
(* set of admissions per user and per domain and one set of in-flight      *)
(* request ids per domain; its caller is rateLimiterMiddleware             *)
(* (src/src/middleware/rateLimiter.js).  The ledger and the limiter share  *)
(* no key, so each has its own specification: Spec runs the ledger with    *)
(* the limiter at rest, LimiterSpec runs the limiter with the ledger at    *)
(* rest.  MiddlewareSpec runs the middleware within one second over a      *)
(* store whose calls can be rejected, MetricsSpec runs the admissions      *)
(* together with getDomainMetrics, and CostSpec runs the two cost          *)
(* calculations on the request bodies of their routes.                     *)
(***************************************************************************)
EXTENDS Integers, Sequences, FiniteSets, TLC

\* ---------------------------------------------------------------- bounds
NumProcs == 2          \* concurrent callers
MaxAmount == 2         \* amounts passed by direct callers are 1..MaxAmount
MaxClock == 1          \* Date.now() ranges over 0..MaxClock
MaxCalls == 2          \* requests started over a run
StartCredits == 2      \* credits of a user who bought credits before the run
MaxDepth == 2          \* request.depth of a crawl is 1..MaxDepth
MaxChecks == 1         \* custom checks / issues of a request are 0..MaxChecks
MaxLimit == 2          \* limit of a history query is 1..MaxLimit
\* the limits of the RateLimiter constructor, scaled down (the code's values
\* are 100 per 3600 s, 60 per 3600 s, 3 concurrent; the ttl is 300 s)
UserRequests == 2      \* limits.user.requests
UserWindow == 3        \* limits.user.window, seconds
DomainRequests == 3    \* limits.domain.requests
DomainWindow == 3      \* limits.domain.window, seconds
DomainConcurrent == 2  \* limits.domain.concurrent
ConcurrentTtl == 2     \* expire(concurrentKey, ..), seconds
MaxSeconds == 3        \* the limiter runs over seconds 0..MaxSeconds
MaxRequests == 3       \* admissions tracked over a run of the limiter
MaxMetricsCalls == 1   \* getDomainMetrics calls over a run
\* the arguments of a cost calculation asked for on its own
MaxPages == 10         \* pages are 0..MaxPages
MaxQuoteDepth == 3     \* depth is 0..MaxQuoteDepth
MaxQuoteChecks == 2    \* customChecks are 0..MaxQuoteChecks
MaxIssues == 5         \* issueCount is 0..MaxIssues

Procs == 1..NumProcs
Users == {"u1", "u2"}
ClientOps == {<<"id", 1>>, <<"id", 2>>}     \* issueId / url chosen by clients
UuidOps == {<<"uuid", n>> : n \in 1..MaxCalls}   \* uuidv4() results
Ops == ClientOps \cup UuidOps
Amounts == 1..MaxAmount
\* transaction ids are timestamps: those of the run, and one earlier
\* millisecond per user for the purchase made before the run
PastTxId(u) == IF u = "u1" THEN 0 - 1 ELSE 0 - 2
TxIds == {PastTxId(u) : u \in Users} \cup 0..MaxClock

Domains == {"api", "site"}     \* 'api', or the hostname of req.body.url
\* request ids: `${userId}:${now}:${Math.random()}`
RequestIds == Users \X (0..MaxSeconds) \X (1..(MaxRequests + NumProcs))
Keys == ({"user"} \X Users) \cup ({"domain", "concurrent"} \X Domains)

\* ---------------------------------------------------------------- state
VARIABLES
  mode,                \* "upstash" (configured store) or "mock" (no configuration)
  now,                 \* Date.now()
  credits,             \* credits:{userId}            -> integer (absent = 0)
  credit_tx,           \* credit_tx:{txId}            -> hash or NoTx
  credit_history,      \* credit_history:{userId}     -> list of txIds, newest first
  credit_reservation,  \* credit_reservation:{opId}   -> hash or NoReservation
  proc,                \* per caller: the request and the CreditService call in progress
  event,               \* the CreditService call that threw in the last step, if any
  last,                \* per user: the last call that changed the user's balance
  calls,               \* requests started so far
  uuids,               \* uuidv4() values handed out so far
  ratelimit_user,      \* ratelimit:user:{userId}       -> sorted set of (member, score)
  ratelimit_domain,    \* ratelimit:domain:{domain}     -> sorted set of (member, score)
  ratelimit_concurrent,\* ratelimit:concurrent:{domain} -> set of request ids
  ttl,                 \* per limiter key: the second at which it expires, or NoTtl
  req,                 \* per caller: the request the middleware is handling
  verdict,             \* the RateLimiter call that ended in the last step, and its outcome
  tracked,             \* every admission trackRequest recorded: whether its 'finish'
                       \* listener is registered, and whether it completed
  quote                \* the cost calculation asked for on its own, and its result

limiter == <<ratelimit_user, ratelimit_domain, ratelimit_concurrent, ttl,
             req, verdict, tracked>>

ledger == <<credits, credit_tx, credit_history, credit_reservation,
            proc, event, last, calls, uuids>>

vars == <<mode, now, credits, credit_tx, credit_history, credit_reservation,
          proc, event, last, calls, uuids, ratelimit_user, ratelimit_domain,
          ratelimit_concurrent, ttl, req, verdict, tracked, quote>>

store == <<credits, credit_tx, credit_history, credit_reservation>>

NoTx == [userId |-> "none", amount |-> 0, type |-> "none"]
NoReservation == [userId |-> "none", amount |-> 0]
NoOp == <<"none", 0>>

\* kind: the request ("direct" = one CreditService call made by some caller);
\* stage: the CreditService call the request is at; pc: "exec" when the
\* call's pipeline is on its way to the store
Idle == [kind |-> "none", stage |-> "none", pc |-> "idle", userId |-> "none",
         op |-> NoOp, amount |-> 0, success |-> FALSE,
         reservation |-> NoReservation, txId |-> 0,
         est |-> 0, final |-> 0, bal0 |-> 0, wclean |-> FALSE, sclean |-> FALSE,
         limit |-> 0, txIds |-> <<>>]

\* value, list: what the call returned (addCredits: its transaction id;
\* getTransactionHistory: its entries)
NoEvent == [proc |-> 0, name |-> "none", outcome |-> "none", userId |-> "none",
            op |-> NoOp, amount |-> 0, success |-> FALSE, value |-> 0,
            limit |-> 0, list |-> <<>>]

\* kind, op, amount: the call; before: the balance it found; clean: no other
\* caller changed the balance since the call began (release) or since the
\* request's reserve (deduct of a request); prev: the change before this one
NoPrev == [kind |-> "none", op |-> NoOp, amount |-> 0, before |-> 0]
NoLast == [kind |-> "none", op |-> NoOp, amount |-> 0, before |-> 0,
           clean |-> FALSE, prev |-> NoPrev]

NoTtl == 0 - 1
NoId == <<"none", 0, 0>>
\* stage: the RateLimiter call the middleware is at; the middleware is done
\* with a request when it has called next()
\* now: the second a metrics call read when it began
NoRequest == [stage |-> "none", userId |-> "none", domain |-> "none",
              requestId |-> NoId, now |-> 0]
\* answer: what the middleware did with the request; limit, remaining,
\* resetIn: what a metrics call returned
NoVerdict == [name |-> "none", outcome |-> "none", userId |-> "none",
              domain |-> "none", answer |-> "none", retryAfter |-> 0,
              limit |-> 0, remaining |-> 0, resetIn |-> 0, current |-> 0]

\* cost: what the calculation returned, NoCost before it has run
NoCost == 0 - 1
NoQuote == [name |-> "none", pages |-> 0, depth |-> 0, customChecks |-> 0,
            issueCount |-> 0, cost |-> NoCost]

\* the two recheck routes run the same sequence of calls
Workflows == {"crawl", "recheck"}

\* ---------------------------------------------------------------- store client
\* redis.get(`credits:${userId}`): the mock answers null whatever was written
RedisGet(u) ==
  IF mode = "mock" THEN [null |-> TRUE, value |-> 0]
  ELSE [null |-> FALSE, value |-> credits[u]]

\* parseInt(balance) || 0
ParseBalance(v) == IF v.null THEN 0 ELSE v.value

\* redis.hgetall(`credit_reservation:${operationId}`): the configured client
\* answers null for a missing hash, the mock answers {} for every key
RedisHGetAll(op) ==
  IF mode = "mock" THEN [found |-> TRUE, hash |-> NoReservation]
  ELSE IF credit_reservation[op] = NoReservation
       THEN [found |-> FALSE, hash |-> NoReservation]
       ELSE [found |-> TRUE, hash |-> credit_reservation[op]]

\* redis.pipeline(): the mock pipeline has exec only, so queueing any
\* command on it throws a TypeError
PipelineUsable == mode = "upstash"

\* ---------------------------------------------------------------- pure functions
\* variant: the check lets a balance one short of the amount through
InsufficientOffByOne(balance, amount) == balance + 1 < amount

\* if (balance < amount) throw new Error('Insufficient credits')
Insufficient(balance, amount) == balance < amount

\* Math.ceil(x) for x given in halves
CeilHalf(h) == (h + 1) \div 2

\* variant: the depth factor is applied whatever the depth
calculateCrawlCostAnyDepth(pages, depth, customChecks) ==
  CeilHalf(pages * (2 + (depth - 1)) + 4 * customChecks)

\* calculateCrawlCost(pages, depth, customChecks), computed in halves
calculateCrawlCost(pages, depth, customChecks) ==
  LET base == IF depth > 1 THEN pages * (2 + (depth - 1)) ELSE 2 * pages
  IN  CeilHalf(base + 4 * customChecks)

\* calculateRecheckCost(issueCount)
calculateRecheckCost(issueCount) == CeilHalf(issueCount)

\* crawl(): let pagesChecked = 0 is handed to crawlPage by value inside the
\* context object, so the local that finalCost is computed from stays 0
PagesChecked == 0

\* ---------------------------------------------------------------- requests
\* the code of a request that runs after its CreditService call ended with
\* the given outcome: the set of records the caller can be in next
ToRelease(r) == [r EXCEPT !.stage = "release", !.pc = "call", !.success = TRUE,
                          !.amount = 0, !.reservation = NoReservation, !.txId = 0]
\* variant: the final deduct charges only what the hold did not cover
ToDeductDifference(r) ==
  [r EXCEPT !.stage = "deduct", !.pc = "call", !.success = FALSE,
            !.amount = r.final - r.est, !.reservation = NoReservation, !.txId = 0]

ToDeduct(r) == [r EXCEPT !.stage = "deduct", !.pc = "call", !.success = FALSE,
                         !.amount = r.final, !.reservation = NoReservation, !.txId = 0]
ToCatch(r) == [r EXCEPT !.stage = "catch", !.pc = "call", !.success = FALSE,
                        !.amount = 0, !.reservation = NoReservation, !.txId = 0]

\* crawl: reserve; initialize() may throw; try { work; release(op, true);
\*   deduct(final); webhook } catch { release(op, false); webhook }
\* recheck routes: reserve; try { work; release(op, true); deduct(cost) }
\*   catch { release(op, false); throw }
Continue(r, outcome) ==
  IF r.kind = "direct" THEN {Idle}
  ELSE IF r.stage = "reserve" THEN
         IF outcome # "ok" THEN {Idle}
         ELSE {ToRelease(r), ToCatch(r)} \cup (IF r.kind = "crawl" THEN {Idle} ELSE {})
  ELSE IF r.stage = "release" THEN
         IF outcome = "ok" THEN {ToDeduct(r)} ELSE {ToCatch(r)}
  ELSE IF r.stage = "deduct" THEN
         IF outcome # "ok" THEN {ToCatch(r)}
         ELSE {Idle} \cup (IF r.kind = "crawl" THEN {ToCatch(r)} ELSE {})
  ELSE {Idle}

\* the balance of user u changes: what `last` records about it
Changed(u, kind, op, amount, clean) ==
  [last EXCEPT ![u] =
     [kind |-> kind, op |-> op, amount |-> amount, before |-> credits[u],
      clean |-> clean,
      prev |-> [kind |-> last[u].kind, op |-> last[u].op,
                amount |-> last[u].amount, before |-> last[u].before]]]

ServiceName(r) ==
  CASE r.stage = "add" -> "addCredits"
    [] r.stage = "deduct" -> "deductCredits"
    [] r.stage = "reserve" -> "reserveCredits"
    [] OTHER -> "releaseReservation"

\* a record that saw the balance of user u change under it
Touch(r, u) ==
  [r EXCEPT !.wclean = @ /\ ~(r.userId = u),
            !.sclean = @ /\ ~(r.reservation.userId = u)]

\* caller p's CreditService call (record r) ends with outcome, having
\* changed the balance of user u ("none": of nobody)
Done(p, r, outcome, u) ==
  \E nr \in Continue(r, outcome) :
    /\ proc' = [q \in Procs |-> IF q = p THEN nr ELSE Touch(proc[q], u)]
    /\ event' = IF outcome = "ok" /\ r.stage # "add" THEN NoEvent
                 ELSE [proc |-> p, name |-> ServiceName(r), outcome |-> outcome,
                       userId |-> r.userId, op |-> r.op, amount |-> r.amount,
                       success |-> r.success,
                       value |-> IF outcome = "ok" THEN r.txId ELSE 0,
                       limit |-> 0, list |-> <<>>]

\* caller p's call goes on: its pipeline is sent
Pending(p, r) ==
  /\ proc' = [proc EXCEPT ![p] = [r EXCEPT !.pc = "exec"]]
  /\ event' = NoEvent

CanStart(p) == proc[p].kind = "none" /\ calls < MaxCalls

\* ---------------------------------------------------------------- Init
\* The store outlives the service.  With the configured store every user
\* starts with the credits of one earlier addCredits call, logged and listed
\* in the history as addCredits leaves them; the mock holds nothing.
Funded == IF mode = "mock" THEN {} ELSE Users

Boot ==
  /\ mode \in {"upstash", "mock"}
  /\ now = 0
  /\ credits = [u \in Users |-> IF u \in Funded THEN StartCredits ELSE 0]
  /\ credit_tx = [t \in TxIds |->
       IF \E u \in Funded : t = PastTxId(u)
       THEN [userId |-> CHOOSE u \in Funded : t = PastTxId(u),
             amount |-> StartCredits, type |-> "add"]
       ELSE NoTx]
  /\ credit_history = [u \in Users |->
       IF u \in Funded THEN <<PastTxId(u)>> ELSE <<>>]
  /\ credit_reservation = [o \in Ops |-> NoReservation]
  /\ proc = [p \in Procs |-> Idle]
  /\ event = NoEvent
  /\ last = [u \in Users |-> NoLast]
  /\ calls = 0
  /\ uuids = 0
  /\ ratelimit_user = [u \in Users |-> {}]
  /\ ratelimit_domain = [d \in Domains |-> {}]
  /\ ratelimit_concurrent = [d \in Domains |-> {}]
  /\ ttl = [k \in Keys |-> NoTtl]
  /\ req = [p \in Procs |-> NoRequest]
  /\ verdict = NoVerdict
  /\ tracked = {}

Init == Boot /\ quote = NoQuote

\* Date.now(): a reading is never below an earlier reading.  The clock is
\* observed only where the code reads it, so it advances there.
ClockReadings == now..MaxClock

\* ---------------------------------------------------------------- addCredits
\* variant: the id is put at the tail of the list
RPush(list, x) == list \o <<x>>

\* lpush(key, x)
LPush(list, x) == <<x>> \o list

\* pipeline: incrby credits, hset credit_tx:{txId}, lpush credit_history
AddCredits(p) ==
  \E u \in Users, a \in Amounts, t \in ClockReadings :
    LET r == [Idle EXCEPT !.kind = "direct", !.stage = "add", !.userId = u,
                          !.amount = a, !.txId = t] IN
    /\ CanStart(p)
    /\ calls' = calls + 1
    /\ now' = IF PipelineUsable THEN t ELSE now
    /\ IF ~PipelineUsable
       THEN /\ Done(p, r, "TypeError", "none")
            /\ UNCHANGED <<store, last>>
       ELSE /\ credits' = [credits EXCEPT ![u] = @ + a]
            /\ credit_tx' = [credit_tx EXCEPT ![r.txId] =
                               [userId |-> u, amount |-> a, type |-> "add"]]
            /\ credit_history' = [credit_history EXCEPT ![u] = LPush(@, r.txId)]
            /\ last' = Changed(u, "add", NoOp, a, FALSE)
            /\ Done(p, r, "ok", u)
            /\ UNCHANGED credit_reservation
    /\ UNCHANGED <<limiter, quote, mode, uuids>>

\* ---------------------------------------------------------------- deductCredits
\* const balance = await this.getBalance(userId); if (balance < amount) throw
DeductGetOn(p, r) ==
  LET balance == ParseBalance(RedisGet(r.userId)) IN
  /\ IF Insufficient(balance, r.amount)
     THEN Done(p, r, "Insufficient credits", "none") /\ now' = now
     ELSE IF ~PipelineUsable
     THEN Done(p, r, "TypeError", "none") /\ now' = now
     ELSE \E t \in ClockReadings : Pending(p, [r EXCEPT !.txId = t]) /\ now' = t
  /\ UNCHANGED <<limiter, quote, mode, store, last, uuids>>

\* deductCredits called on its own
DeductDirect(p) ==
  /\ CanStart(p)
  /\ calls' = calls + 1
  /\ \E u \in Users, a \in Amounts :
       DeductGetOn(p, [Idle EXCEPT !.kind = "direct", !.stage = "deduct",
                                   !.userId = u, !.amount = a])

DeductGet(p) ==
  \/ DeductDirect(p)
  \/ /\ proc[p].kind \in Workflows /\ proc[p].stage = "deduct" /\ proc[p].pc = "call"
     /\ calls' = calls
     /\ DeductGetOn(p, proc[p])

\* pipeline: decrby credits, hset credit_tx:{txId}, lpush credit_history
DeductExec(p) ==
  LET r == proc[p]
      u == r.userId IN
  /\ r.stage = "deduct" /\ r.pc = "exec"
  /\ credits' = [credits EXCEPT ![u] = @ - r.amount]
  /\ credit_tx' = [credit_tx EXCEPT ![r.txId] =
                     [userId |-> u, amount |-> 0 - r.amount, type |-> "deduct"]]
  /\ credit_history' = [credit_history EXCEPT ![u] = LPush(@, r.txId)]
  /\ last' = Changed(u, "deduct", NoOp, r.amount, r.wclean)
  /\ Done(p, r, "ok", u)
  /\ UNCHANGED <<limiter, quote, mode, now, credit_reservation, calls, uuids>>

\* ---------------------------------------------------------------- reserveCredits
\* const balance = await this.getBalance(userId); if (balance < amount) throw
ReserveGetOn(p, r) ==
  LET balance == ParseBalance(RedisGet(r.userId)) IN
  /\ IF Insufficient(balance, r.amount) THEN Done(p, r, "Insufficient credits", "none")
     ELSE IF ~PipelineUsable THEN Done(p, r, "TypeError", "none")
     ELSE Pending(p, r)
  /\ UNCHANGED <<limiter, quote, mode, now, store, last>>

ReserveGet(p) ==
  /\ CanStart(p)
  /\ calls' = calls + 1
  /\ uuids' = uuids
  /\ \E u \in Users, a \in Amounts, op \in ClientOps :
       ReserveGetOn(p, [Idle EXCEPT !.kind = "direct", !.stage = "reserve",
                                    !.userId = u, !.amount = a, !.op = op])

\* variant: the reservation is stored without the amount held
ReservationHashNoAmount(u, a) == [userId |-> u, amount |-> 0]

\* the hash written by hset(`credit_reservation:${operationId}`, {userId, amount, ..})
ReservationHash(u, a) == [userId |-> u, amount |-> a]

\* pipeline: decrby credits, hset credit_reservation:{operationId}
ReserveExec(p) ==
  LET r == proc[p]
      u == r.userId IN
  /\ r.stage = "reserve" /\ r.pc = "exec"
  /\ credits' = [credits EXCEPT ![u] = @ - r.amount]
  /\ credit_reservation' = [credit_reservation EXCEPT ![r.op] = ReservationHash(u, r.amount)]
  /\ last' = Changed(u, "reserve", r.op, r.amount, FALSE)
  /\ Done(p, [r EXCEPT !.bal0 = credits[u], !.wclean = TRUE], "ok", u)
  /\ UNCHANGED <<limiter, quote, mode, now, credit_tx, credit_history, calls, uuids>>

\* ---------------------------------------------------------------- releaseReservation
\* const reservation = await hgetall(..); if (!reservation) throw
ReleaseGetOn(p, r) ==
  LET h == RedisHGetAll(r.op) IN
  /\ IF ~h.found THEN Done(p, r, "Reservation not found", "none")
     ELSE IF ~PipelineUsable THEN Done(p, r, "TypeError", "none")
     ELSE Pending(p, [r EXCEPT !.reservation = h.hash, !.sclean = TRUE])
  /\ UNCHANGED <<limiter, quote, mode, now, store, last, uuids>>

ReleaseGet(p) ==
  \/ /\ CanStart(p)
     /\ calls' = calls + 1
     /\ \E op \in ClientOps, s \in BOOLEAN :
          ReleaseGetOn(p, [Idle EXCEPT !.kind = "direct", !.stage = "release",
                                       !.op = op, !.success = s])
  \/ /\ proc[p].kind \in Workflows /\ proc[p].stage \in {"release", "catch"}
     /\ proc[p].pc = "call"
     /\ calls' = calls
     /\ ReleaseGetOn(p, proc[p])

\* variant: a failed operation gets nothing back
RefundNever(success, amount) == 0

\* variant: the hold is given back whatever the outcome
RefundAlways(success, amount) == amount

\* if (!success) pipeline.incrby(`credits:${reservation.userId}`, reservation.amount)
Refund(success, amount) == IF success THEN 0 ELSE amount

\* pipeline: [incrby credits], del credit_reservation:{operationId}
ReleaseExec(p) ==
  LET r == proc[p]
      u == r.reservation.userId IN
  /\ r.stage \in {"release", "catch"} /\ r.pc = "exec"
  /\ credits' = [credits EXCEPT ![u] = @ + Refund(r.success, r.reservation.amount)]
  /\ credit_reservation' = [credit_reservation EXCEPT ![r.op] = NoReservation]
  /\ IF r.success
     THEN /\ Done(p, r, "ok", "none")
          /\ UNCHANGED last
     ELSE /\ last' = Changed(u, "refund", r.op, r.reservation.amount, r.sclean)
          /\ Done(p, r, "ok", u)
  /\ UNCHANGED <<limiter, quote, mode, now, credit_tx, credit_history, calls, uuids>>

\* ---------------------------------------------------------------- getTransactionHistory
\* lrange(key, start, stop) with 0 <= start <= stop: the mock answers []
LRange(list, start, stop) ==
  IF mode = "mock" THEN <<>>
  ELSE SubSeq(list, start + 1, IF stop + 1 < Len(list) THEN stop + 1 ELSE Len(list))

\* transactions.map((tx, i) => ({ id: txIds[i], ...tx }))
Entry(txId, tx) == [id |-> txId, userId |-> tx.userId, amount |-> tx.amount,
                    type |-> tx.type]

Returned(p, u, limit, list) ==
  [NoEvent EXCEPT !.proc = p, !.name = "getTransactionHistory", !.outcome = "ok",
                  !.userId = u, !.limit = limit, !.list = list]

\* const txIds = await lrange(`credit_history:${userId}`, 0, limit - 1);
\* if (!txIds.length) return []
GetTransactionHistory(p) ==
  \E u \in Users, limit \in 1..MaxLimit :
    LET txIds == LRange(credit_history[u], 0, limit - 1) IN
    /\ proc[p].kind = "none"
    /\ IF txIds = <<>>
       THEN /\ proc' = proc
            /\ event' = Returned(p, u, limit, <<>>)
       ELSE /\ proc' = [proc EXCEPT ![p] =
                         [Idle EXCEPT !.kind = "direct", !.stage = "history",
                                      !.pc = "exec", !.userId = u, !.limit = limit,
                                      !.txIds = txIds]]
            /\ event' = NoEvent
    /\ UNCHANGED <<limiter, quote, mode, now, store, last, calls, uuids>>

\* pipeline: hgetall credit_tx:{txId} for each id read; then the entries
HistoryExec(p) ==
  LET r == proc[p] IN
  /\ r.stage = "history" /\ r.pc = "exec"
  /\ proc' = [proc EXCEPT ![p] = Idle]
  /\ event' = Returned(p, r.userId, r.limit,
                       [i \in 1..Len(r.txIds) |-> Entry(r.txIds[i], credit_tx[r.txIds[i]])])
  /\ UNCHANGED <<limiter, quote, mode, now, store, last, calls, uuids>>

\* ---------------------------------------------------------------- requests
\* CrawlerService.crawl(request): estimatedCost, operationId = uuidv4(), reserve
Crawl(p) ==
  \E u \in Users, depth \in 1..MaxDepth, checks \in 0..MaxChecks :
    LET est == calculateCrawlCost(1, depth, checks)
        final == calculateCrawlCost(PagesChecked, depth, checks) IN
    /\ CanStart(p)
    /\ calls' = calls + 1
    /\ uuids' = uuids + 1
    /\ ReserveGetOn(p, [Idle EXCEPT !.kind = "crawl", !.stage = "reserve", !.userId = u,
                                    !.op = <<"uuid", uuids + 1>>, !.amount = est,
                                    !.est = est, !.final = final])

\* router.post('/issues/:issueId'): recheckCost of 1 issue, reserve under issueId
RecheckIssue(p) ==
  \E u \in Users, issueId \in ClientOps :
    LET recheckCost == calculateRecheckCost(1) IN
    /\ CanStart(p)
    /\ calls' = calls + 1
    /\ uuids' = uuids
    /\ ReserveGetOn(p, [Idle EXCEPT !.kind = "recheck", !.stage = "reserve",
                                    !.userId = u, !.op = issueId, !.amount = recheckCost,
                                    !.est = recheckCost, !.final = recheckCost])

\* router.post('/url'): recheckCost of issues.length issues, reserve under url
RecheckUrl(p) ==
  \E u \in Users, url \in ClientOps, issues \in 0..MaxChecks :
    LET recheckCost == calculateRecheckCost(issues) IN
    /\ CanStart(p)
    /\ calls' = calls + 1
    /\ uuids' = uuids
    /\ ReserveGetOn(p, [Idle EXCEPT !.kind = "recheck", !.stage = "reserve",
                                    !.userId = u, !.op = url, !.amount = recheckCost,
                                    !.est = recheckCost, !.final = recheckCost])

\* ---------------------------------------------------------------- cost routes
\* the bodies of the two cost routes: { pages, depth, customChecks } and
\* { issueCount }
Asked ==
  {[NoQuote EXCEPT !.name = "calculateCrawlCost", !.pages = pages, !.depth = depth,
                   !.customChecks = customChecks] :
     pages \in 0..MaxPages, depth \in 0..MaxQuoteDepth,
     customChecks \in 0..MaxQuoteChecks}
  \cup {[NoQuote EXCEPT !.name = "calculateRecheckCost", !.issueCount = issueCount] :
          issueCount \in 0..MaxIssues}

CostInit == Boot /\ quote \in Asked

\* router.post('/calculate-cost')
CalculateCrawlCost ==
  /\ quote.name = "calculateCrawlCost" /\ quote.cost = NoCost
  /\ quote' = [quote EXCEPT
                 !.cost = calculateCrawlCost(quote.pages, quote.depth, quote.customChecks)]
  /\ UNCHANGED <<ledger, limiter, mode, now>>

\* router.post('/calculate-recheck-cost')
CalculateRecheckCost ==
  /\ quote.name = "calculateRecheckCost" /\ quote.cost = NoCost
  /\ quote' = [quote EXCEPT !.cost = calculateRecheckCost(quote.issueCount)]
  /\ UNCHANGED <<ledger, limiter, mode, now>>

CostNext == CalculateCrawlCost \/ CalculateRecheckCost

CostSpec == CostInit /\ [][CostNext]_vars

\* ---------------------------------------------------------------- Next
Next ==
  \/ \E p \in Procs : AddCredits(p)
  \/ \E p \in Procs : DeductGet(p)
  \/ \E p \in Procs : DeductExec(p)
  \/ \E p \in Procs : ReserveGet(p)
  \/ \E p \in Procs : ReserveExec(p)
  \/ \E p \in Procs : ReleaseGet(p)
  \/ \E p \in Procs : ReleaseExec(p)
  \/ \E p \in Procs : Crawl(p)
  \/ \E p \in Procs : RecheckIssue(p)
  \/ \E p \in Procs : RecheckUrl(p)

Spec == Init /\ [][Next]_vars

\* the transaction log on its own: the calls that write it, and the query
\* that reads it (a query changes nothing and is not counted in `calls`)
HistoryNext ==
  \/ \E p \in Procs : AddCredits(p)
  \/ \E p \in Procs : DeductDirect(p)
  \/ \E p \in Procs : DeductExec(p)
  \/ \E p \in Procs : GetTransactionHistory(p)
  \/ \E p \in Procs : HistoryExec(p)

HistorySpec == Init /\ [][HistoryNext]_vars

TypeOK ==
  /\ mode \in {"upstash", "mock"}
  /\ now \in 0..MaxClock
  /\ calls \in 0..MaxCalls
  /\ \A u \in Users : credits[u] \in Int

\* ---------------------------------------------------------------- RateLimiter
\* const now = Math.floor(Date.now() / 1000)
Seconds == now \div 1000

UserKey(u) == <<"user", u>>
DomainKey(d) == <<"domain", d>>
ConcurrentKey(d) == <<"concurrent", d>>

\* zremrangebyscore(key, 0, max): what is left of the sorted set
ZRemRangeByScore(zset, max) == {e \in zset : ~(0 <= e.score /\ e.score <= max)}

\* zadd(key, score, member): a member is held once, under its latest score
ZAdd(zset, score, member) ==
  {e \in zset : e.member # member} \cup {[member |-> member, score |-> score]}

\* a key that holds nothing does not exist, and has no expiry
TtlOf(k, content, t) == IF content = {} THEN NoTtl ELSE t

\* variant: the user gate lets one request more through
UserGateOffByOne(userCount) == userCount > UserRequests

\* if (userCount >= this.limits.user.requests) throw
UserGate(userCount) == userCount >= UserRequests

\* if (domainCount >= this.limits.domain.requests) throw
DomainGate(domainCount) == domainCount >= DomainRequests

\* variant: the concurrency gate lets one request more through
ConcurrentGateOffByOne(concurrentCount) == concurrentCount > DomainConcurrent

\* if (concurrentCount >= this.limits.domain.concurrent) throw
ConcurrentGate(concurrentCount) == concurrentCount >= DomainConcurrent

\* variant: the concurrency gate is tried before the window gates
GatesConcurrencyFirst(userCount, domainCount, concurrentCount) ==
  IF ConcurrentGate(concurrentCount) THEN "Too many concurrent requests for this domain"
  ELSE IF UserGate(userCount) THEN "User rate limit exceeded"
  ELSE IF DomainGate(domainCount) THEN "Domain rate limit exceeded"
  ELSE "ok"

\* variant: the concurrency gate is left out
GatesWindowsOnly(userCount, domainCount, concurrentCount) ==
  IF UserGate(userCount) THEN "User rate limit exceeded"
  ELSE IF DomainGate(domainCount) THEN "Domain rate limit exceeded"
  ELSE "ok"

\* isAllowed, "Check limits": the first gate that is exceeded throws
Gates(userCount, domainCount, concurrentCount) ==
  IF UserGate(userCount) THEN "User rate limit exceeded"
  ELSE IF DomainGate(domainCount) THEN "Domain rate limit exceeded"
  ELSE IF ConcurrentGate(concurrentCount) THEN "Too many concurrent requests for this domain"
  ELSE "ok"

\* requests past isAllowed whose trackRequest is still to come
Pendings == Cardinality({p \in Procs : req[p].stage = "track"})

\* error.message.includes(part)
Includes(message, part) ==
  \E i \in 1..(Len(message) - Len(part) + 1) :
    SubSeq(message, i, i + Len(part) - 1) = part

\* retryAfter: 3600 // 1 hour
RetryAfter == 3600

\* the middleware's catch: res.status(429).json({.., retryAfter}) for a message
\* that includes 'rate limit', next(error) for any other error
Catch(v) ==
  IF Includes(v.outcome, "rate limit")
  THEN [v EXCEPT !.answer = "429", !.retryAfter = RetryAfter]
  ELSE [v EXCEPT !.answer = "next(error)"]

\* isAllowed(u, d) ended with outcome; a throw ends the request in the catch
Said(outcome, u, d) ==
  LET v == [NoVerdict EXCEPT !.name = "isAllowed", !.outcome = outcome,
                             !.userId = u, !.domain = d]
  IN  IF outcome = "ok" THEN v ELSE Catch(v)

\* rateLimiterMiddleware: await rateLimiter.isAllowed(userId, domain).
\* pipeline: zremrangebyscore user, zremrangebyscore domain, zcard user,
\* zcard domain, scard concurrent; then the gates.  A refusal ends the
\* request in the middleware's catch.  On the mock, queueing the first
\* command on the pipeline throws a TypeError.
IsAllowed(p) ==
  \E u \in Users, d \in Domains :
    LET users == ZRemRangeByScore(ratelimit_user[u], Seconds - UserWindow)
        domains == ZRemRangeByScore(ratelimit_domain[d], Seconds - DomainWindow)
        userCount == Cardinality(users)
        domainCount == Cardinality(domains)
        concurrentCount == Cardinality(ratelimit_concurrent[d])
        outcome == Gates(userCount, domainCount, concurrentCount) IN
    /\ req[p].stage = "none"
    /\ IF ~PipelineUsable
       THEN /\ verdict' = Said("TypeError", u, d)
            /\ UNCHANGED <<ratelimit_user, ratelimit_domain, ttl, req>>
       ELSE /\ outcome = "ok" => Cardinality(tracked) + Pendings < MaxRequests
            /\ ratelimit_user' = [ratelimit_user EXCEPT ![u] = users]
            /\ ratelimit_domain' = [ratelimit_domain EXCEPT ![d] = domains]
            /\ ttl' = [ttl EXCEPT ![UserKey(u)] = TtlOf(UserKey(u), users, @),
                                  ![DomainKey(d)] = TtlOf(DomainKey(d), domains, @)]
            /\ verdict' = Said(outcome, u, d)
            /\ req' = IF outcome = "ok"
                      THEN [req EXCEPT ![p] = [NoRequest EXCEPT !.stage = "track",
                                                 !.userId = u, !.domain = d]]
                      ELSE req
    /\ UNCHANGED <<ledger, quote, mode, now, ratelimit_concurrent, tracked>>

\* pipeline.expire(concurrentKey, 300): the key's expiry starts anew
ConcurrentExpiry(old, t) == t + ConcurrentTtl

\* Math.random(): a value that no earlier request id of the same user and
\* second carries
Random(u, t) == 1 + Cardinality({x \in tracked : x.id[1] = u /\ x.id[2] = t})

\* const requestId = await rateLimiter.trackRequest(userId, domain).
\* pipeline: zadd user, zadd domain, sadd concurrent, expire x 3
TrackRequest(p) ==
  LET u == req[p].userId
      d == req[p].domain
      requestId == <<u, Seconds, Random(u, Seconds)>> IN
  /\ req[p].stage = "track"
  /\ ratelimit_user' = [ratelimit_user EXCEPT ![u] = ZAdd(@, Seconds, requestId)]
  /\ ratelimit_domain' = [ratelimit_domain EXCEPT ![d] = ZAdd(@, Seconds, requestId)]
  /\ ratelimit_concurrent' = [ratelimit_concurrent EXCEPT ![d] = @ \cup {requestId}]
  /\ ttl' = [ttl EXCEPT ![UserKey(u)] = Seconds + UserWindow,
                        ![DomainKey(d)] = Seconds + DomainWindow,
                        ![ConcurrentKey(d)] = ConcurrentExpiry(@, Seconds)]
  /\ tracked' = tracked \cup {[id |-> requestId, domain |-> d,
                                listening |-> FALSE, done |-> FALSE]}
  /\ req' = [req EXCEPT ![p] = [@ EXCEPT !.stage = "metrics", !.requestId = requestId]]
  /\ verdict' = NoVerdict
  /\ UNCHANGED <<ledger, quote, mode, now>>

\* zcard(key): the mock answers 0
ZCard(zset) == IF mode = "mock" THEN 0 ELSE Cardinality(zset)

\* scard(key): the mock answers 0
SCard(set) == IF mode = "mock" THEN 0 ELSE Cardinality(set)

\* variant: remaining is not clamped at 0
RemainingUnclamped(limit, count) == limit - count

\* remaining: Math.max(0, limit - count)
Remaining(limit, count) == IF limit - count > 0 THEN limit - count ELSE 0

\* resetIn: window - (now % window)
ResetIn(window, t) == window - (t % window)

\* { limit, remaining, resetIn } as getUserMetrics and getDomainMetrics
\* return them
Metrics(name, u, d, limit, count, window, t) ==
  [NoVerdict EXCEPT !.name = name, !.outcome = "ok", !.userId = u, !.domain = d,
                    !.limit = limit, !.remaining = Remaining(limit, count),
                    !.resetIn = ResetIn(window, t)]

\* getUserMetrics, first round trip: const now = ..;
\* zremrangebyscore(userKey, 0, now - window)
MetricsPurge(p) ==
  LET u == req[p].userId
      users == ZRemRangeByScore(ratelimit_user[u], Seconds - UserWindow) IN
  /\ req[p].stage = "metrics"
  /\ ratelimit_user' = [ratelimit_user EXCEPT ![u] = users]
  /\ ttl' = [ttl EXCEPT ![UserKey(u)] = TtlOf(UserKey(u), users, @)]
  /\ req' = [req EXCEPT ![p] = [@ EXCEPT !.stage = "count", !.now = Seconds]]
  /\ verdict' = NoVerdict
  /\ UNCHANGED <<ledger, quote, mode, now, ratelimit_domain, ratelimit_concurrent, tracked>>

\* getUserMetrics, second round trip: count = zcard(userKey); then the
\* middleware sets the headers, registers the 'finish' listener and calls next()
MetricsCount(p) ==
  LET u == req[p].userId
      count == ZCard(ratelimit_user[u])
      m == Metrics("getUserMetrics", u, "none", UserRequests, count,
                   UserWindow, req[p].now) IN
  /\ req[p].stage = "count"
  /\ req' = [req EXCEPT ![p] = NoRequest]
  /\ verdict' = [m EXCEPT !.answer = "next()"]
  /\ tracked' = {IF x.id = req[p].requestId THEN [x EXCEPT !.listening = TRUE] ELSE x
                  : x \in tracked}
  /\ UNCHANGED <<ledger, quote, mode, now, ratelimit_user, ratelimit_domain,
                 ratelimit_concurrent, ttl>>

\* a round trip of getUserMetrics is rejected (the store's client gives up
\* after its retries): the middleware's catch passes the error on, and the
\* lines that register the 'finish' listener are not reached
MetricsFails(p) ==
  /\ req[p].stage \in {"metrics", "count"}
  /\ req' = [req EXCEPT ![p] = NoRequest]
  /\ verdict' = Catch([NoVerdict EXCEPT !.name = "getUserMetrics",
                                        !.outcome = "StoreError",
                                        !.userId = req[p].userId])
  /\ UNCHANGED <<ledger, quote, mode, now, ratelimit_user, ratelimit_domain,
                 ratelimit_concurrent, ttl, tracked>>

\* getDomainMetrics(domain), first round trip: const now = ..;
\* zremrangebyscore(domainKey, 0, now - window)
DomainMetricsPurge(p) ==
  \E d \in Domains :
    LET domains == ZRemRangeByScore(ratelimit_domain[d], Seconds - DomainWindow) IN
    /\ req[p].stage = "none"
    /\ calls < MaxMetricsCalls
    /\ calls' = calls + 1
    /\ ratelimit_domain' = [ratelimit_domain EXCEPT ![d] = domains]
    /\ ttl' = [ttl EXCEPT ![DomainKey(d)] = TtlOf(DomainKey(d), domains, @)]
    /\ req' = [req EXCEPT ![p] = [NoRequest EXCEPT !.stage = "domainCount",
                                                  !.domain = d, !.now = Seconds]]
    /\ verdict' = NoVerdict
    /\ UNCHANGED <<store, proc, event, last, uuids, quote, mode, now, ratelimit_user,
                   ratelimit_concurrent, tracked>>

\* getDomainMetrics, second round trip: zcard(domainKey) and
\* scard(concurrentKey), sent together
DomainMetricsCount(p) ==
  LET d == req[p].domain
      count == ZCard(ratelimit_domain[d])
      concurrentCount == SCard(ratelimit_concurrent[d])
      m == Metrics("getDomainMetrics", "none", d, DomainRequests, count,
                   DomainWindow, req[p].now) IN
  /\ req[p].stage = "domainCount"
  /\ req' = [req EXCEPT ![p] = NoRequest]
  /\ verdict' = [m EXCEPT !.current = concurrentCount]
  /\ UNCHANGED <<ledger, quote, mode, now, ratelimit_user, ratelimit_domain,
                 ratelimit_concurrent, ttl, tracked>>

\* variant: completing a request also takes it out of the domain window
DomainWindowForgets(zset, requestId) == {e \in zset : e.member # requestId}

\* completeRequest leaves the domain window alone
DomainWindowAfterComplete(zset, requestId) == zset

\* res.on('finish'): await rateLimiter.completeRequest(domain, requestId),
\* that is srem(concurrentKey, requestId), for a request whose listener the
\* middleware has registered; a response that never finishes never gets there
CompleteRequest ==
  \E x \in tracked :
    LET d == x.domain
        left == ratelimit_concurrent[d] \ {x.id} IN
    /\ x.listening /\ ~x.done
    /\ ratelimit_concurrent' = [ratelimit_concurrent EXCEPT ![d] = left]
    /\ ratelimit_domain' =
         [ratelimit_domain EXCEPT ![d] = DomainWindowAfterComplete(@, x.id)]
    /\ ttl' = [ttl EXCEPT ![ConcurrentKey(d)] = TtlOf(ConcurrentKey(d), left, @)]
    /\ tracked' = (tracked \ {x}) \cup {[x EXCEPT !.done = TRUE]}
    /\ verdict' = NoVerdict
    /\ UNCHANGED <<ledger, quote, mode, now, ratelimit_user, req>>

\* a key whose expiry has come is deleted by the store
Expired(k, t) == ttl[k] # NoTtl /\ ttl[k] <= t

\* one second passes
Tick ==
  LET t == Seconds + 1 IN
  /\ Seconds < MaxSeconds
  /\ now' = now + 1000
  /\ ratelimit_user' =
       [u \in Users |-> IF Expired(UserKey(u), t) THEN {} ELSE ratelimit_user[u]]
  /\ ratelimit_domain' =
       [d \in Domains |-> IF Expired(DomainKey(d), t) THEN {} ELSE ratelimit_domain[d]]
  /\ ratelimit_concurrent' =
       [d \in Domains |->
          IF Expired(ConcurrentKey(d), t) THEN {} ELSE ratelimit_concurrent[d]]
  /\ ttl' = [k \in Keys |-> IF Expired(k, t) THEN NoTtl ELSE ttl[k]]
  /\ verdict' = NoVerdict
  /\ UNCHANGED <<ledger, quote, mode, req, tracked>>

LimiterNext ==
  \/ \E p \in Procs : IsAllowed(p)
  \/ \E p \in Procs : TrackRequest(p)
  \/ \E p \in Procs : MetricsPurge(p)
  \/ \E p \in Procs : MetricsCount(p)
  \/ CompleteRequest
  \/ Tick

LimiterSpec == Init /\ [][LimiterNext]_vars

\* the middleware within one second, over a store whose calls can be rejected
MiddlewareNext ==
  \/ \E p \in Procs : IsAllowed(p)
  \/ \E p \in Procs : TrackRequest(p)
  \/ \E p \in Procs : MetricsPurge(p)
  \/ \E p \in Procs : MetricsCount(p)
  \/ \E p \in Procs : MetricsFails(p)
  \/ CompleteRequest

MiddlewareSpec == Init /\ [][MiddlewareNext]_vars

\* the windows on their own: the admissions that fill them and the metrics
\* calls that read them
MetricsNext ==
  \/ \E p \in Procs : IsAllowed(p)
  \/ \E p \in Procs : TrackRequest(p)
  \/ \E p \in Procs : MetricsPurge(p)
  \/ \E p \in Procs : MetricsCount(p)
  \/ \E p \in Procs : DomainMetricsPurge(p)
  \/ \E p \in Procs : DomainMetricsCount(p)
  \/ Tick

MetricsSpec == Init /\ [][MetricsNext]_vars

LimiterTypeOK ==
  /\ Seconds \in 0..MaxSeconds
  /\ \A t \in tracked : t.id \in RequestIds /\ t.domain \in Domains
  /\ \A d \in Domains : ratelimit_concurrent[d] \subseteq RequestIds
  /\ \A k \in Keys : ttl[k] \in {NoTtl} \cup 0..(MaxSeconds + UserWindow + DomainWindow)

\* ---------------------------------------------------------------- steps
\* caller p's pipeline of the given call is applied in this step
Applies(p, stages) ==
  /\ proc[p].stage \in stages
  /\ proc[p].pc = "exec"
  /\ proc'[p].pc # "exec"

\* caller p's call passed its first read in this step and sends its pipeline
Passes(p, stages) ==
  /\ proc[p].pc # "exec"
  /\ proc'[p].stage \in stages
  /\ proc'[p].pc = "exec"

\* the call of the given name threw in this step
Threw(name) == event'.name = name /\ event'.proc \in Procs

RECURSIVE SumAmounts(_)
SumAmounts(ts) ==
  IF ts = {} THEN 0
  ELSE LET t == CHOOSE x \in ts : TRUE
       IN  credit_tx[t].amount + SumAmounts(ts \ {t})

\* the sum of the signed amounts of the transactions logged for user u
TxSum(u) == SumAmounts({t \in TxIds : credit_tx[t].userId = u})

Quiet == \A p \in Procs : proc[p] = Idle

RECURSIVE SumHeld(_, _, _)
SumHeld(reservations, u, ops) ==
  IF ops = {} THEN 0
  ELSE LET o == CHOOSE x \in ops : TRUE
       IN  (IF reservations[o].userId = u THEN reservations[o].amount ELSE 0)
           + SumHeld(reservations, u, ops \ {o})

\* the amounts of the pending reservations of user u in the given records
Held(reservations, u) == SumHeld(reservations, u, Ops)

\* caller p's request ends in this step
Ends(p) == proc[p].kind \in Workflows /\ proc'[p] = Idle

\* ---------------------------------------------------------------- claims

\* C1: the stored balance of a user is never negative, whatever the
\* interleaving of addCredits, deductCredits, reserveCredits and
\* releaseReservation calls.
C1_NonNegativeBalance == \A u \in Users : credits[u] >= 0

\* C2: a reserveCredits call for a positive amount whose write reaches the
\* store while a reservation is pending for its operationId, the balance
\* covering its amount, does not take effect (it fails as a duplicate): the
\* balance and the pending reservation stay as they are.
C2_NoDuplicateReservation ==
  [][\A p \in Procs :
       ( /\ Applies(p, {"reserve"})
         /\ credit_reservation[proc[p].op] # NoReservation
         /\ proc[p].amount > 0
         /\ credits[proc[p].userId] >= proc[p].amount )
       => /\ credits' = credits
          /\ credit_reservation' = credit_reservation]_vars

\* C3: a reservation is settled once: a releaseReservation call whose write
\* reaches the store after the reservation it read was already released
\* credits nothing back.
C3_SettledOnce ==
  [][\A p \in Procs :
       ( /\ Applies(p, {"release", "catch"})
         /\ credit_reservation[proc[p].op] = NoReservation )
       => credits' = credits]_vars

\* C4: whenever no call is in progress, the signed amounts of the
\* transactions logged for a user add up to the user's balance.
C4_LedgerMatchesBalance == Quiet => \A u \in Users : TxSum(u) = credits[u]

\* C5: when releaseReservation(op, false) takes effect and the last change of
\* the refunded user's balance is the reserveCredits(user, a, op) that found
\* balance b, nothing having touched that balance since the release began,
\* the balance was b - a before the release and is b after it, and no
\* reservation record remains for op.
C5_ReserveThenRefundRestores ==
  [][\A p \in Procs :
       ( /\ Applies(p, {"release", "catch"})
         /\ ~proc[p].success
         /\ proc[p].sclean
         /\ last[proc[p].reservation.userId].kind = "reserve"
         /\ last[proc[p].reservation.userId].op = proc[p].op )
       => LET u == proc[p].reservation.userId IN
          /\ credits[u] = last[u].before - last[u].amount
          /\ credits'[u] = last[u].before
          /\ credit_reservation'[proc[p].op] = NoReservation]_vars

\* C5 witness: a refund that directly followed the reserve on the same
\* operationId has brought a balance from b - a back to b, with a > 0.
C5_Witness ==
  \E u \in Users :
    /\ last[u].kind = "refund" /\ last[u].clean
    /\ last[u].prev.kind = "reserve" /\ last[u].prev.op = last[u].op
    /\ last[u].amount > 0
    /\ last[u].before = last[u].prev.before - last[u].amount
    /\ credits[u] = last[u].prev.before
    /\ credit_reservation[last[u].op] = NoReservation

\* C6: releaseReservation(op, true) that found a pending reservation changes
\* no balance, appends no transaction and leaves no reservation record for op.
C6_ReleaseKeptFrame ==
  [][\A p \in Procs :
       (Applies(p, {"release"}) /\ proc[p].success)
       => /\ credits' = credits
          /\ credit_tx' = credit_tx
          /\ credit_history' = credit_history
          /\ credit_reservation'[proc[p].op] = NoReservation]_vars

\* C6 witness: a request is past its releaseReservation(op, true): the record
\* is gone and the held amount is still missing from the balance.
C6_Witness ==
  \E p \in Procs :
    /\ proc[p].kind \in Workflows /\ proc[p].stage = "deduct" /\ proc[p].pc = "call"
    /\ proc[p].wclean /\ proc[p].est > 0
    /\ credit_reservation[proc[p].op] = NoReservation
    /\ credits[proc[p].userId] = proc[p].bal0 - proc[p].est

\* C7: on the success path of a request (reserve of the estimate e, release
\* with success = true, deduct of the final cost f) with no other change of
\* the user's balance, the balance ends e + f below where it started.
C7_ChargedEstimatePlusFinal ==
  [][\A p \in Procs :
       ( /\ Applies(p, {"deduct"})
         /\ proc[p].kind \in Workflows
         /\ proc[p].wclean )
       => credits'[proc[p].userId] = proc[p].bal0 - (proc[p].est + proc[p].final)]_vars

\* C7 witness: a request's deduct has acted right after its reserve, with
\* e > 0 and f > 0, and the balance is e + f below the balance the reserve found.
C7_Witness ==
  \E u \in Users :
    /\ last[u].kind = "deduct" /\ last[u].clean
    /\ last[u].prev.kind = "reserve"
    /\ last[u].amount > 0 /\ last[u].prev.amount > 0
    /\ credits[u] = last[u].prev.before - (last[u].prev.amount + last[u].amount)

\* C8: a deductCredits call that reads a balance below its amount throws
\* 'Insufficient credits' and leaves the balances, the transaction records
\* and the histories as they are; it never goes on to its pipeline.
C8_DeductInsufficient ==
  [][/\ \A p \in Procs :
          Passes(p, {"deduct"}) => credits[proc'[p].userId] >= proc'[p].amount
     /\ (Threw("deductCredits") /\ credits[event'.userId] < event'.amount)
          => /\ event'.outcome = "Insufficient credits"
             /\ credits' = credits
             /\ credit_tx' = credit_tx
             /\ credit_history' = credit_history]_vars

\* C8 witness: a deduct of more than a user's positive balance has been refused.
C8_Witness ==
  /\ event.name = "deductCredits" /\ event.outcome = "Insufficient credits"
  /\ credits[event.userId] > 0
  /\ credits[event.userId] < event.amount

\* C9: a reserveCredits call that reads a balance below its amount throws
\* 'Insufficient credits', changes no balance and records no reservation;
\* a reserveCredits call that takes effect lowers the balance by exactly its
\* amount and leaves the reservation (user, amount) under its operationId.
C9_ReserveOutcome ==
  [][/\ \A p \in Procs :
          Passes(p, {"reserve"}) => credits[proc'[p].userId] >= proc'[p].amount
     /\ (Threw("reserveCredits") /\ credits[event'.userId] < event'.amount)
          => /\ event'.outcome = "Insufficient credits"
             /\ credits' = credits
             /\ credit_reservation' = credit_reservation
     /\ \A p \in Procs :
          Applies(p, {"reserve"})
          => /\ credits'[proc[p].userId] = credits[proc[p].userId] - proc[p].amount
             /\ \A u \in Users \ {proc[p].userId} : credits'[u] = credits[u]
             /\ credit_reservation'[proc[p].op] =
                  [userId |-> proc[p].userId, amount |-> proc[p].amount]]_vars

\* C9 witness: a reserve has just taken effect: its reservation is pending and
\* the balance is its amount below the balance it found.
C9_Witness ==
  \E u \in Users :
    /\ last[u].kind = "reserve" /\ last[u].amount > 0
    /\ credit_reservation[last[u].op] = [userId |-> u, amount |-> last[u].amount]
    /\ credits[u] = last[u].before - last[u].amount

\* C10: a releaseReservation call that finds no pending reservation for its
\* operationId throws 'Reservation not found' and changes neither a balance
\* nor a reservation record; it never goes on to its pipeline.
C10_ReleaseUnknownFails ==
  [][/\ \A p \in Procs :
          Passes(p, {"release", "catch"})
          => credit_reservation[proc'[p].op] # NoReservation
     /\ (Threw("releaseReservation") /\ credit_reservation[event'.op] = NoReservation)
          => /\ event'.outcome = "Reservation not found"
             /\ credits' = credits
             /\ credit_reservation' = credit_reservation]_vars

\* C11: an addCredits(user, amount) call that returns has raised that user's
\* balance by exactly amount, written one transaction record (user, amount,
\* add) under the id it returns and no other record, put that id at the head
\* of the user's history, and left every other balance and history as it was.
C11_AddCreditsEffect ==
  [][(event'.name = "addCredits" /\ event'.outcome = "ok")
       => LET u == event'.userId
              id == event'.value IN
          /\ event'.amount > 0
          /\ credits'[u] = credits[u] + event'.amount
          /\ credit_tx'[id] = [userId |-> u, amount |-> event'.amount, type |-> "add"]
          /\ \A t \in TxIds \ {id} : credit_tx'[t] = credit_tx[t]
          /\ credit_history'[u] = <<id>> \o credit_history[u]
          /\ \A v \in Users \ {u} :
               credits'[v] = credits[v] /\ credit_history'[v] = credit_history[v]
          /\ credit_reservation' = credit_reservation]_vars

\* C11 witness: an addCredits call has just returned the id that now heads
\* the history of a user who had a transaction before, the added amount on
\* top of the earlier balance.
C11_Witness ==
  /\ event.name = "addCredits" /\ event.outcome = "ok"
  /\ Len(credit_history[event.userId]) = 2
  /\ Head(credit_history[event.userId]) = event.value
  /\ credit_tx[event.value].amount = event.amount
  /\ credits[event.userId] = StartCredits + event.amount

\* C12: getTransactionHistory(user, limit) returns at most limit entries, in
\* the order of the user's history (newest first, as of the moment the ids
\* were read), and every entry is a transaction logged for that user.
C12_HistoryOfUser ==
  event.name = "getTransactionHistory"
  => LET h == credit_history[event.userId] IN
     /\ Len(event.list) <= event.limit
     /\ \E k \in 0..Len(h) :
          \A i \in 1..Len(event.list) :
            k + i <= Len(h) /\ event.list[i].id = h[k + i]
     /\ \A i \in 1..Len(event.list) : event.list[i].userId = event.userId

\* C13: a transaction record, once written, is never changed: every
\* addCredits or deductCredits call writes under an id that holds no record.
C13_RecordsImmutable ==
  [][\A t \in TxIds : credit_tx[t] # NoTx => credit_tx'[t] = credit_tx[t]]_vars

\* ---------------------------------------------------------------- limiter claims
\* the admissions recorded for user u (on domain d) newer than w seconds at second t
UserAdmissions(u, t, w) == {x \in tracked : x.id[1] = u /\ x.id[2] > t - w}
DomainAdmissions(d, t, w) == {x \in tracked : x.domain = d /\ x.id[2] > t - w}
\* the admissions to domain d whose completeRequest has not been called
InFlight(d) == {x \in tracked : x.domain = d /\ ~x.done}

\* the gates of isAllowed were evaluated in this step
Checked == verdict'.name = "isAllowed" /\ verdict'.outcome # "TypeError"

\* C14: an admission check of a user is refused with the user rate-limit
\* error exactly when UserRequests or more admissions of that user were
\* recorded within the last UserWindow seconds: from an empty window
\* UserRequests admissions pass this gate, the next one within the window is
\* refused, and admissions older than the window no longer count, the check
\* having purged them from the user's window.
C14_UserWindowAdmission ==
  [][Checked =>
       LET u == verdict'.userId
           n == Cardinality(UserAdmissions(u, Seconds, UserWindow)) IN
       /\ verdict'.outcome = "User rate limit exceeded" <=> n >= UserRequests
       /\ \A e \in ratelimit_user'[u] : e.score > Seconds - UserWindow
       /\ Cardinality(ratelimit_user'[u]) = n]_vars

\* C14 witness: a user who had used up the window (UserRequests admissions
\* recorded) passes the check again, all those admissions being older than
\* the window and purged.
C14_Witness ==
  /\ verdict.name = "isAllowed" /\ verdict.outcome = "ok"
  /\ Cardinality({x \in tracked : x.id[1] = verdict.userId}) >= UserRequests
  /\ UserAdmissions(verdict.userId, Seconds, UserWindow) = {}
  /\ ratelimit_user[verdict.userId] = {}

\* every admission to domain d still in flight is younger than the safety
\* ttl of the concurrency set
InFlightYoung(d) == \A x \in InFlight(d) : Seconds < x.id[2] + ConcurrentTtl

\* C15: an admission check on a domain whose in-flight admissions are all
\* younger than the safety ttl, the window gates being below their limits,
\* is refused with the concurrency error exactly when DomainConcurrent or
\* more admissions to that domain are in flight (tracked, completeRequest not
\* called): DomainConcurrent admissions without completion pass, the next is
\* refused, and after one completeRequest the next passes.
C15_ConcurrencyCap ==
  [][(Checked /\ InFlightYoung(verdict'.domain)
        /\ verdict'.outcome \notin {"User rate limit exceeded",
                                     "Domain rate limit exceeded"})
       => ( verdict'.outcome = "Too many concurrent requests for this domain"
            <=> Cardinality(InFlight(verdict'.domain)) >= DomainConcurrent )]_vars

\* C15 witness: a check passes on a domain that has had DomainConcurrent
\* admissions, one of them completed and the others still in flight.
C15_Witness ==
  /\ verdict.name = "isAllowed" /\ verdict.outcome = "ok"
  /\ Cardinality({x \in tracked : x.domain = verdict.domain}) = DomainConcurrent
  /\ Cardinality(InFlight(verdict.domain)) = DomainConcurrent - 1
  /\ InFlightYoung(verdict.domain)
  /\ ratelimit_concurrent[verdict.domain] = {x.id : x \in InFlight(verdict.domain)}

\* C16 (as claimed): whatever the interleaving of admissions and
\* completions, a domain's concurrency set never holds more than
\* DomainConcurrent request ids.
C16_CapNeverExceeded ==
  \A d \in Domains : Cardinality(ratelimit_concurrent[d]) <= DomainConcurrent

\* C16 (amended): at the instant isAllowed succeeds, the domain's
\* concurrency set holds fewer than DomainConcurrent request ids (the inserts
\* of callers that passed the check together can then take it above the cap).
C16_CapAtCheck ==
  [][(Checked /\ verdict'.outcome = "ok")
       => Cardinality(ratelimit_concurrent[verdict'.domain]) < DomainConcurrent]_vars

\* C16 witness: two callers passed the check on a domain one below its cap
\* and both have inserted their ids: the set is one above the cap.
C16_Witness ==
  \E d \in Domains :
    /\ Cardinality(ratelimit_concurrent[d]) = DomainConcurrent + 1
    /\ \A p \in Procs : req[p].domain = d /\ req[p].stage = "metrics"

\* C17: whatever the interleaving of admissions, the admissions recorded for
\* one user within any trailing window of UserWindow seconds never number
\* more than UserRequests, and those recorded for one domain within any
\* trailing window of DomainWindow seconds never more than DomainRequests.
C17_QuotaNeverExceeded ==
  \A t \in 0..MaxSeconds :
    /\ \A u \in Users :
         Cardinality({x \in UserAdmissions(u, t, UserWindow) : x.id[2] <= t})
           <= UserRequests
    /\ \A d \in Domains :
         Cardinality({x \in DomainAdmissions(d, t, DomainWindow) : x.id[2] <= t})
           <= DomainRequests

\* C18: the admission check tries the user window, then the domain window,
\* then the domain concurrency, and reports the first gate that is exceeded:
\* a user at the limit gets the user rate-limit error whatever the domain's
\* state, the domain error is reported only below the user limit, and the
\* concurrency error only when both windows are below their limits.
C18_GateOrder ==
  [][Checked =>
       LET nu == Cardinality(UserAdmissions(verdict'.userId, Seconds, UserWindow))
           nd == Cardinality(DomainAdmissions(verdict'.domain, Seconds, DomainWindow))
           nc == Cardinality(ratelimit_concurrent[verdict'.domain]) IN
       /\ nu >= UserRequests => verdict'.outcome = "User rate limit exceeded"
       /\ (nu < UserRequests /\ nd >= DomainRequests)
            => verdict'.outcome = "Domain rate limit exceeded"
       /\ verdict'.outcome = "Too many concurrent requests for this domain"
            => (nu < UserRequests /\ nd < DomainRequests /\ nc >= DomainConcurrent)]_vars

\* C18 witness: a user at the limit is refused with the user error on a
\* domain whose concurrency set is at its cap.
C18_Witness ==
  /\ verdict.name = "isAllowed" /\ verdict.outcome = "User rate limit exceeded"
  /\ Cardinality(UserAdmissions(verdict.userId, Seconds, UserWindow)) >= UserRequests
  /\ Cardinality(ratelimit_concurrent[verdict.domain]) >= DomainConcurrent

\* completeRequest(x.domain, x.id) is applied in this step
Completes(x) ==
  /\ x \in tracked /\ ~x.done
  /\ tracked' = (tracked \ {x}) \cup {[x EXCEPT !.done = TRUE]}

\* C19: completeRequest(domain, requestId) takes requestId out of that
\* domain's concurrency set and changes nothing else: the user windows, the
\* domain windows, the other domains' concurrency sets and the other ids of
\* the same set stay as they are, so the request still counts in the windows.
C19_CompleteFrame ==
  [][\A x \in tracked :
       Completes(x)
       => /\ ratelimit_concurrent'[x.domain] = ratelimit_concurrent[x.domain] \ {x.id}
          /\ \A d \in Domains \ {x.domain} :
               ratelimit_concurrent'[d] = ratelimit_concurrent[d]
          /\ ratelimit_user' = ratelimit_user
          /\ ratelimit_domain' = ratelimit_domain]_vars

\* C19 witness: a completed request is out of its domain's concurrency set,
\* still in the user window and in the domain window, and another request
\* of the same domain is still in the set.
C19_Witness ==
  \E x \in tracked :
    /\ x.done
    /\ x.id \notin ratelimit_concurrent[x.domain]
    /\ ratelimit_concurrent[x.domain] # {}
    /\ \E e \in ratelimit_domain[x.domain] : e.member = x.id
    /\ \E e \in ratelimit_user[x.id[1]] : e.member = x.id

\* C20: a request id is out of its domain's concurrency set once
\* ConcurrentTtl seconds have passed since its own admission, whatever was
\* admitted to the domain meanwhile; and a request in flight that is younger
\* than that is in the set.
C20_SlotFreedWithinTtl ==
  \A d \in Domains :
    /\ \A id \in ratelimit_concurrent[d] : Seconds < id[2] + ConcurrentTtl
    /\ \A x \in InFlight(d) :
         Seconds < x.id[2] + ConcurrentTtl => x.id \in ratelimit_concurrent[d]

\* a metrics call of caller p makes a round trip in this step
Measures(p) ==
  /\ req'[p] # req[p]
  /\ req[p].stage \in {"metrics", "count", "domainCount"} \/ req'[p].stage = "domainCount"

\* C21: once the middleware is through with a request that trackRequest
\* admitted, the 'finish' listener that calls completeRequest(domain, id) for
\* it is registered (a request without it is never completed).
C21_AdmittedIsCompleted ==
  \A x \in tracked : (\A p \in Procs : req[p].requestId # x.id) => x.listening

\* C22: an isAllowed call refused by the user window, the domain window or
\* the concurrency gate is answered with 429 and a retry hint.
C22_RefusalAnswered429 ==
  ( /\ verdict.name = "isAllowed"
    /\ verdict.outcome \in {"User rate limit exceeded", "Domain rate limit exceeded",
                            "Too many concurrent requests for this domain"} )
  => verdict.answer = "429" /\ verdict.retryAfter > 0

\* C23: getUserMetrics and getDomainMetrics return limit = the configured
\* limit, remaining = max(0, limit - currentCount) with currentCount the
\* entries of the window newer than now - W (now as the call read it), so
\* remaining is in 0..limit, and resetIn = W - (now mod W), in 1..W; no round
\* trip of a metrics call adds an entry to a window or to a concurrency set.
C23_MetricsReport ==
  [][\A p \in Procs :
       /\ ( /\ req[p].stage = "count" /\ req'[p] = NoRequest
            /\ verdict'.name = "getUserMetrics" /\ verdict'.outcome = "ok" )
          => LET t == req[p].now
                 currentCount == Cardinality({e \in ratelimit_user[req[p].userId] :
                                                e.score > t - UserWindow})
             IN  /\ verdict'.limit = UserRequests
                 /\ verdict'.remaining = IF currentCount < UserRequests
                                         THEN UserRequests - currentCount ELSE 0
                 /\ verdict'.remaining \in 0..UserRequests
                 /\ verdict'.resetIn = UserWindow - (t % UserWindow)
                 /\ verdict'.resetIn \in 1..UserWindow
       /\ ( /\ req[p].stage = "domainCount" /\ req'[p] = NoRequest
            /\ verdict'.name = "getDomainMetrics" )
          => LET t == req[p].now
                 currentCount == Cardinality({e \in ratelimit_domain[req[p].domain] :
                                                e.score > t - DomainWindow})
             IN  /\ verdict'.limit = DomainRequests
                 /\ verdict'.remaining = IF currentCount < DomainRequests
                                         THEN DomainRequests - currentCount ELSE 0
                 /\ verdict'.remaining \in 0..DomainRequests
                 /\ verdict'.resetIn = DomainWindow - (t % DomainWindow)
                 /\ verdict'.resetIn \in 1..DomainWindow
       /\ Measures(p)
          => /\ \A u \in Users : ratelimit_user'[u] \subseteq ratelimit_user[u]
             /\ \A d \in Domains : ratelimit_domain'[d] \subseteq ratelimit_domain[d]
             /\ ratelimit_concurrent' = ratelimit_concurrent]_vars

\* C23 witness: getUserMetrics has reported remaining = 0 for a user whose
\* window holds more admissions than the limit.
C23_Witness ==
  /\ verdict.name = "getUserMetrics" /\ verdict.remaining = 0
  /\ Cardinality(ratelimit_user[verdict.userId]) > UserRequests

C25_AbsentStoreNotInsufficient ==
  (mode = "mock" /\ event.name \in {"deductCredits", "reserveCredits"})
  => event.outcome # "Insufficient credits"

\* C26: no deductCredits or reserveCredits call with an amount of zero or less
\* goes on to its pipeline (it is rejected before it writes anything).
C26_NonPositiveRejected ==
  \A p \in Procs :
    (proc[p].stage \in {"deduct", "reserve"} /\ proc[p].pc = "exec")
    => proc[p].amount > 0

\* C27: a request that ends in failure after its reserve took effect (crawl:
\* initialize() threw; any request: its catch block ran), no other caller
\* having changed the user's balance meanwhile, leaves the balance where it
\* was before the reserve.
C27_FailureChargesNothing ==
  [][\A p \in Procs :
       /\ (Ends(p) /\ Applies(p, {"reserve"}))
          => credits'[proc[p].userId] = credits[proc[p].userId]
       /\ (Ends(p) /\ proc[p].stage = "catch" /\ proc[p].wclean)
          => credits'[proc[p].userId] = proc[p].bal0]_vars

\* C28: when a request whose reserve took effect ends, no reservation is
\* pending under its operationId.
C28_ReservationSettled ==
  [][\A p \in Procs :
       (Ends(p) /\ (Applies(p, {"reserve"}) \/ proc[p].stage # "reserve"))
       => credit_reservation'[proc[p].op] = NoReservation]_vars

\* C29: the refund made by the catch block of a request goes to the request's
\* own user and is the amount the request's reserve held; no other balance
\* changes.
C29_RefundToReserver ==
  [][\A p \in Procs :
       (Applies(p, {"catch"}) /\ proc[p].kind \in Workflows)
       => /\ credits'[proc[p].userId] = credits[proc[p].userId] + proc[p].est
          /\ \A u \in Users \ {proc[p].userId} : credits'[u] = credits[u]]_vars

\* C30: for each user, balance plus pending holds is changed by a reserve
\* and by a release with success = false not at all, and by a release with
\* success = true by minus the amount of the reservation released.
C30_Conservation ==
  [][\A p \in Procs : \A u \in Users :
       LET before == credits[u] + Held(credit_reservation, u)
           after == credits'[u] + Held(credit_reservation', u)
       IN  /\ Applies(p, {"reserve"}) => after = before
           /\ (Applies(p, {"release", "catch"}) /\ ~proc[p].success) => after = before
           /\ (Applies(p, {"release", "catch"}) /\ proc[p].success)
                => after = before - (IF proc[p].reservation.userId = u
                                     THEN proc[p].reservation.amount ELSE 0)]_vars

====
